---- MODULE Spec2Model ----
(***************************************************************************)
(* A model of the command-line chat client: the response formatting        *)
(* pipeline (text_formatter.py, main.py), the conversation loop            *)
(* (conversation.py, main.py), the saving of the transcript, and the       *)
(* progress tracker with its ticker threads (progress_tracker.py).         *)
(*                                                                         *)
(* Text is a sequence of one-character strings, so that the regular        *)
(* expressions and the string methods of the source are computed on the    *)
(* characters.  Three characters have no spelling in a TLA+ string and are *)
(* written as the tokens "ESC" (U+001B), "BULLET" (U+2022) and "BQ" (the   *)
(* backquote, U+0060).                                                     *)
(***************************************************************************)
EXTENDS Integers, Sequences, FiniteSets, TLC

----------------------------------------------------------------------------
(* Characters and character classes of Python's re module.                 *)

LowerLetters ==
    {"a","b","c","d","e","f","g","h","i","j","k","l","m",
     "n","o","p","q","r","s","t","u","v","w","x","y","z"}

UpperLetters ==
    {"A","B","C","D","E","F","G","H","I","J","K","L","M",
     "N","O","P","Q","R","S","T","U","V","W","X","Y","Z"}

Digits == {"0","1","2","3","4","5","6","7","8","9"}

Whitespace == {" ", "\n", "\t", "\r", "\f"}

SetMin(S) == CHOOSE x \in S : \A y \in S : x <= y

SetMax(S) == CHOOSE x \in S : \A y \in S : x >= y

(* One item of a pattern: a character class with a repetition range, or a  *)
(* zero-width anchor.  max = -1 is an unbounded repetition.                *)
Lit(c) == [kind |-> "lit", arg |-> c, min |-> 1, max |-> 1, lazy |-> FALSE]

Rep(kind, arg, lo, hi, lazy) ==
    [kind |-> kind, arg |-> arg, min |-> lo, max |-> hi, lazy |-> lazy]

Bol == [kind |-> "bol", arg |-> "", min |-> 0, max |-> 0, lazy |-> FALSE]

Eol == [kind |-> "eol", arg |-> "", min |-> 0, max |-> 0, lazy |-> FALSE]

(* c is in the class of item it:  lit x, [^x], \s, \w, \d, . (without and  *)
(* with DOTALL) and the set of the bullet pattern.                        *)
Accepts(it, c) ==
    CASE it.kind = "lit"    -> c = it.arg
      [] it.kind = "not"    -> c # it.arg
      [] it.kind = "space"  -> c \in Whitespace
      [] it.kind = "word"   -> c \in LowerLetters \cup UpperLetters \cup Digits \cup {"_"}
      [] it.kind = "digit"  -> c \in Digits
      [] it.kind = "dot"    -> c # "\n"
      [] it.kind = "any"    -> TRUE
      [] it.kind = "bullet" -> c \in {"BULLET", "-", "*"}
      [] OTHER              -> FALSE

(* ^ and $ under re.MULTILINE, at the position after p characters of t.    *)
AtBol(t, p) == p = 0 \/ t[p] = "\n"

AtEol(t, p) == p = Len(t) \/ t[p + 1] = "\n"

(* The longest run of characters after position p that item it accepts.    *)
RunLen(it, t, p) ==
    LET hi  == IF it.max < 0 \/ p + it.max > Len(t) THEN Len(t) ELSE p + it.max
        bad == {i \in (p + 1)..hi : ~Accepts(it, t[i])}
    IN  IF bad = {} THEN hi - p ELSE SetMin(bad) - 1 - p

FAIL == <<-1>>

(* The backtracking match of the items re[k..] at position p: the end      *)
(* position of every item, in the first alternative the matcher finds      *)
(* (a greedy item tries its longest repetition first, a lazy one its       *)
(* shortest), or FAIL.                                                     *)
RECURSIVE MatchItems(_, _, _, _)
MatchItems(re, k, t, p) ==
    IF k > Len(re) THEN <<>>
    ELSE LET it == re[k] IN
         IF it.kind \in {"bol", "eol"}
         THEN IF (it.kind = "bol" /\ AtBol(t, p)) \/ (it.kind = "eol" /\ AtEol(t, p))
              THEN LET r == MatchItems(re, k + 1, t, p)
                   IN  IF r = FAIL THEN FAIL ELSE <<p>> \o r
              ELSE FAIL
         ELSE LET run == RunLen(it, t, p)
                  alt == {<<n, MatchItems(re, k + 1, t, p + n)>> : n \in it.min..run}
                  ok  == {a \in alt : a[2] # FAIL}
              IN  IF ok = {} THEN FAIL
                  ELSE LET n == IF it.lazy THEN SetMin({a[1] : a \in ok})
                                ELSE SetMax({a[1] : a \in ok})
                           c == CHOOSE a \in ok : a[1] = n
                       IN  <<p + n>> \o c[2]

(* re.finditer: the leftmost non-overlapping matches of re in t, each with *)
(* its start and the end positions of its items.                           *)
RECURSIVE SelectMatches(_, _)
SelectMatches(all, p) ==
    LET c == {m \in all : m.start >= p}
    IN  IF c = {} THEN <<>>
        ELSE LET q == SetMin({m.start : m \in c})
                 m == CHOOSE x \in c : x.start = q
             IN  <<m>> \o SelectMatches(all, m.ends[Len(m.ends)])

FindMatches(re, t) ==
    LET tried == {[start |-> q, ends |-> MatchItems(re, 1, t, q)] : q \in 0..(Len(t) - 1)}
    IN  SelectMatches({m \in tried : m.ends # FAIL}, 0)

(* The text matched by the items i..j of the match m.                      *)
Grp(t, m, i, j) ==
    SubSeq(t, (IF i = 1 THEN m.start ELSE m.ends[i - 1]) + 1, m.ends[j])

MatchEnd(m) == m.ends[Len(m.ends)]

----------------------------------------------------------------------------
(* String methods.                                                         *)

RECURSIVE Decimal(_)
Decimal(n) ==
    LET d == <<"0","1","2","3","4","5","6","7","8","9">>[(n % 10) + 1]
    IN  IF n < 10 THEN <<d>> ELSE Decimal(n \div 10) \o <<d>>

(* str.replace: every non-overlapping occurrence of old, from the left.    *)
RECURSIVE ReplaceFrom(_, _, _, _, _)
ReplaceFrom(t, occ, old, new, p) ==
    LET c == {q \in occ : q >= p}
    IN  IF c = {} THEN SubSeq(t, p + 1, Len(t))
        ELSE LET q == SetMin(c)
             IN  SubSeq(t, p + 1, q) \o new \o ReplaceFrom(t, occ, old, new, q + Len(old))

StrReplace(t, old, new) ==
    IF Len(t) < Len(old) THEN t
    ELSE LET occ == {q \in 0..(Len(t) - Len(old)) : SubSeq(t, q + 1, q + Len(old)) = old}
         IN  ReplaceFrom(t, occ, old, new, 0)

----------------------------------------------------------------------------
(* termcolor.colored: one SGR escape sequence per colour, highlight and    *)
(* attribute in front of the text (the attributes outermost, the last one  *)
(* first) and the reset sequence behind it.  color and on_color are "" and *)
(* attrs is << >> where the call passes none.                              *)

Sgr(n) == <<"ESC", "[">> \o Decimal(n) \o <<"m">>

ColorCode(name) ==
    CASE name = "grey"      -> 30
      [] name = "red"       -> 31
      [] name = "green"     -> 32
      [] name = "yellow"    -> 33
      [] name = "blue"      -> 34
      [] name = "white"     -> 37
      [] name = "on_grey"   -> 40
      [] name = "bold"      -> 1
      [] name = "dark"      -> 2
      [] name = "underline" -> 4

RECURSIVE WithAttrs(_, _, _)
WithAttrs(text, attrs, i) ==
    IF i > Len(attrs) THEN text
    ELSE WithAttrs(Sgr(ColorCode(attrs[i])) \o text, attrs, i + 1)

colored(text, color, on_color, attrs) ==
    LET c1 == IF color = "" THEN text ELSE Sgr(ColorCode(color)) \o text
        c2 == IF on_color = "" THEN c1 ELSE Sgr(ColorCode(on_color)) \o c1
    IN  WithAttrs(c2, attrs, 1) \o Sgr(0)

----------------------------------------------------------------------------
(* text_formatter.py (and the same functions of main.py).                  *)

\* r'```(?:\w+)?\n.*?\n```' with re.DOTALL, and the same pattern with the groups of
\* highlight_code_blocks: item 4 is the language, item 6 the code.
triple_code_pattern ==
    <<Lit("BQ"), Lit("BQ"), Lit("BQ"), Rep("word", "", 0, -1, FALSE), Lit("\n"),
      Rep("any", "", 0, -1, TRUE), Lit("\n"), Lit("BQ"), Lit("BQ"), Lit("BQ")>>

\* r'^(\s*)(\d+\.)(\s+)(.+)$' with re.MULTILINE
number_pattern ==
    <<Bol, Rep("space", "", 0, -1, FALSE), Rep("digit", "", 1, -1, FALSE), Lit("."),
      Rep("space", "", 1, -1, FALSE), Rep("dot", "", 1, -1, FALSE), Eol>>

\* r'^(\s*)[<bullet>\-\*](\s+)(.+)$' with re.MULTILINE
bullet_pattern ==
    <<Bol, Rep("space", "", 0, -1, FALSE), Rep("bullet", "", 1, 1, FALSE),
      Rep("space", "", 1, -1, FALSE), Rep("dot", "", 1, -1, FALSE), Eol>>

\* r'`([^`]+)`'
inline_code_pattern == <<Lit("BQ"), Rep("not", "BQ", 1, -1, FALSE), Lit("BQ")>>

\* r'\*\*([^*]+)\*\*'
bold_pattern ==
    <<Lit("*"), Lit("*"), Rep("not", "*", 1, -1, FALSE), Lit("*"), Lit("*")>>

\* r'\*([^*]+)\*'
italic_pattern == <<Lit("*"), Rep("not", "*", 1, -1, FALSE), Lit("*")>>

\* r'\[([^\]]+)\]\(([^\)]+)\)'
url_pattern ==
    <<Lit("["), Rep("not", "]", 1, -1, FALSE), Lit("]"),
      Lit("("), Rep("not", ")", 1, -1, FALSE), Lit(")")>>

\* r'^(#{1,6})\s+(.+)$' with re.MULTILINE
header_pattern ==
    <<Bol, Rep("lit", "#", 1, 6, FALSE), Rep("space", "", 1, -1, FALSE),
      Rep("dot", "", 1, -1, FALSE), Eol>>

placeholder_pattern ==
    <<"C","O","D","E","_","B","L","O","C","K","_",
      "P","L","A","C","E","H","O","L","D","E","R","_">>

(* placeholder_pattern.format(n) *)
Placeholder(n) == placeholder_pattern \o Decimal(n)

(* pygments.highlight(code, lexer, TerminalFormatter()): the colours are   *)
(* pygments' own; the model keeps one colour run over the code and the     *)
(* newline that ends the formatter's output.                               *)
highlight(code) == Sgr(34) \o code \o Sgr(39) \o <<"\n">>

(* The replacement callbacks of the re.sub calls: the text that replaces   *)
(* the i-th match m of the rule in t.  lexer is what the lexer lookup of   *)
(* replace_code_block comes to: "found", or "none" when get_lexer_by_name  *)
(* and guess_lexer both raise ClassNotFound.                               *)
Replacement(rule, t, m, i, lexer) ==
    CASE rule = "store_code_block" -> Placeholder(i - 1)
      [] rule = "number_replace" ->
            Grp(t, m, 2, 2) \o colored(Grp(t, m, 3, 4), "yellow", "", <<"bold">>)
            \o Grp(t, m, 5, 5) \o colored(Grp(t, m, 6, 6), "white", "", << >>)
      [] rule = "bullet_replace" ->
            Grp(t, m, 2, 2)
            \o colored(colored(<<"BULLET">>, "yellow", "", << >>), "yellow", "", <<"bold">>)
            \o Grp(t, m, 4, 4) \o colored(Grp(t, m, 5, 5), "white", "", << >>)
      [] rule = "code_replace" -> colored(Grp(t, m, 2, 2), "green", "on_grey", <<"bold">>)
      [] rule = "bold_replace" -> colored(Grp(t, m, 3, 3), "", "", <<"bold">>)
      [] rule = "italic_replace" -> colored(Grp(t, m, 2, 2), "", "", <<"dark">>)
      [] rule = "url_replace" -> colored(Grp(t, m, 2, 2), "blue", "", <<"underline">>)
      [] rule = "header_replace" ->
            <<"\n">> \o colored(Grp(t, m, 4, 4), "white", "", <<"bold", "underline">>)
            \o <<"\n">>
      [] rule = "replace_code_block" ->
            IF lexer = "found" THEN <<"\n">> \o highlight(Grp(t, m, 6, 6)) \o <<"\n">>
            ELSE <<"\n">> \o Grp(t, m, 6, 6) \o <<"\n">>

(* re.sub(pattern, callback, text) *)
RECURSIVE SubFrom(_, _, _, _, _, _)
SubFrom(t, ms, rule, lexer, i, p) ==
    IF i > Len(ms) THEN SubSeq(t, p + 1, Len(t))
    ELSE SubSeq(t, p + 1, ms[i].start) \o Replacement(rule, t, ms[i], i, lexer)
         \o SubFrom(t, ms, rule, lexer, i + 1, MatchEnd(ms[i]))

ReSub(re, rule, t) ==
    IF Len(t) = 0 THEN t ELSE SubFrom(t, FindMatches(re, t), rule, "none", 1, 0)

highlight_code_blocks(text, lexer) ==
    IF Len(text) = 0 THEN text
    ELSE SubFrom(text, FindMatches(triple_code_pattern, text), "replace_code_block", lexer, 1, 0)

(* The fenced blocks store_code_block puts into code_blocks: the dict is   *)
(* keyed by the placeholder of its size, so block i is under               *)
(* Placeholder(i - 1) and the dict iterates in this order.                 *)
StoredBlocks(text) ==
    LET ms == FindMatches(triple_code_pattern, text)
    IN  [i \in 1..Len(ms) |-> Grp(text, ms[i], 1, Len(triple_code_pattern))]

format_lists(text) ==
    ReSub(bullet_pattern, "bullet_replace", ReSub(number_pattern, "number_replace", text))

format_inline_elements(text) ==
    ReSub(url_pattern, "url_replace",
        ReSub(italic_pattern, "italic_replace",
            ReSub(bold_pattern, "bold_replace",
                ReSub(inline_code_pattern, "code_replace", text))))

format_headers(text) == ReSub(header_pattern, "header_replace", text)

(* for placeholder, code_block in code_blocks.items():                     *)
(*     text = text.replace(placeholder, code_block)                        *)
RECURSIVE RestoreBlocks(_, _, _)
RestoreBlocks(text, code_blocks, i) ==
    IF i > Len(code_blocks) THEN text
    ELSE RestoreBlocks(StrReplace(text, Placeholder(i - 1), code_blocks[i]), code_blocks, i + 1)

enhance_text_formatting(text) ==
    LET stored == ReSub(triple_code_pattern, "store_code_block", text)
    IN  RestoreBlocks(format_headers(format_inline_elements(format_lists(stored))),
                      StoredBlocks(text), 1)

----------------------------------------------------------------------------
(* More string methods, for the conversation loop and the save routine.    *)

lower_letters ==
    <<"a","b","c","d","e","f","g","h","i","j","k","l","m",
      "n","o","p","q","r","s","t","u","v","w","x","y","z">>

upper_letters ==
    <<"A","B","C","D","E","F","G","H","I","J","K","L","M",
      "N","O","P","Q","R","S","T","U","V","W","X","Y","Z">>

(* str.lower *)
Lower(t) ==
    [i \in 1..Len(t) |->
        IF t[i] \in UpperLetters
        THEN lower_letters[CHOOSE k \in 1..26 : upper_letters[k] = t[i]]
        ELSE t[i]]

(* str.strip *)
Strip(t) ==
    LET keep == {i \in 1..Len(t) : t[i] \notin Whitespace}
    IN  IF keep = {} THEN << >> ELSE SubSeq(t, SetMin(keep), SetMax(keep))

(* str.split(sep) *)
RECURSIVE SplitFrom(_, _, _, _)
SplitFrom(t, occ, sep, p) ==
    LET c == {q \in occ : q >= p}
    IN  IF c = {} THEN <<SubSeq(t, p + 1, Len(t))>>
        ELSE LET q == SetMin(c)
             IN  <<SubSeq(t, p + 1, q)>> \o SplitFrom(t, occ, sep, q + Len(sep))

Split(t, sep) ==
    LET occ == {q \in 0..(Len(t) - Len(sep)) : SubSeq(t, q + 1, q + Len(sep)) = sep}
    IN  SplitFrom(t, occ, sep, 0)

(* sep.join(parts) *)
RECURSIVE Join(_, _)
Join(sep, parts) ==
    IF Len(parts) = 0 THEN << >>
    ELSE IF Len(parts) = 1 THEN parts[1]
    ELSE parts[1] \o sep \o Join(sep, Tail(parts))

----------------------------------------------------------------------------
(* model_selector.py *)

concise_instruction ==
    <<"P","l","e","a","s","e"," ","f","o","r","m","a","t"," ","y","o","u","r"," ","r","e","s",
      "p","o","n","s","e"," ","a","s"," ","a"," ","n","u","m","b","e","r","e","d"," ","l","i",
      "s","t",".">>

short_instruction ==
    <<"P","l","e","a","s","e"," ","k","e","e","p"," ","y","o","u","r"," ","r","e","s","p","o",
      "n","s","e"," ","t","o"," ","o","n","e"," ","p","a","r","a","g","r","a","p","h"," ","o",
      "r"," ","l","e","s","s",".">>

instructions_preamble ==
    <<"\n","\n","A","d","d","i","t","i","o","n","a","l"," ","i","n","s","t","r","u","c","t","i",
      "o","n","s",":"," ">>

modify_prompt(prompt, concise_flag, short_flag) ==
    LET modifications == (IF concise_flag THEN <<concise_instruction>> ELSE << >>)
                         \o (IF short_flag THEN <<short_instruction>> ELSE << >>)
    IN  IF Len(modifications) > 0
        THEN prompt \o instructions_preamble \o Join(<<" ">>, modifications)
        ELSE prompt

----------------------------------------------------------------------------
(* conversation.py (and the same functions of main.py): the summary and    *)
(* the saved file.                                                         *)

Message(role, content) == [role |-> role, content |-> content]

summary_prompt ==
    Message("user",
    <<"P","l","e","a","s","e"," ","p","r","o","v","i","d","e"," ","a"," ","t","h","r","e","e",
      "-","w","o","r","d"," ","s","u","m","m","a","r","y"," ","o","f"," ","t","h","i","s"," ",
      "c","o","n","v","e","r","s","a","t","i","o","n","."," ","U","s","e"," ","h","y","p","h",
      "e","n","s"," ","b","e","t","w","e","e","n"," ","w","o","r","d","s"," ","a","n","d"," ",
      "o","n","l","y"," ","a","l","p","h","a","n","u","m","e","r","i","c"," ","c","h","a","r",
      "a","c","t","e","r","s","."," ","E","x","a","m","p","l","e"," ","f","o","r","m","a","t",
      ":"," ","u","s","e","f","u","l","-","p","y","t","h","o","n","-","d","i","s","c","u","s",
      "s","i","o","n">>)

general_chat_log ==
    <<"g","e","n","e","r","a","l","-","c","h","a","t","-","l","o","g">>

(* SummaryRequest sending only the last exchange. *)
SummaryRequestRecent(msgs) ==
    SubSeq(msgs, IF Len(msgs) > 2 THEN Len(msgs) - 1 ELSE 1, Len(msgs)) \o <<summary_prompt>>

(* messages=self.messages + [summary_prompt]: a new list for the call.     *)
SummaryRequest(msgs) == msgs \o <<summary_prompt>>

(* summary = response.content[0].text.strip().lower()                      *)
(* words = [word for word in summary.split('-') if word][:3]               *)
(* return '-'.join(words)                                                  *)
SummarySlug(text) ==
    LET summary == Lower(Strip(text))
        words   == SelectSeq(Split(summary, <<"-">>), LAMBDA w : Len(w) > 0)
    IN  Join(<<"-">>, SubSeq(words, 1, IF Len(words) < 3 THEN Len(words) ELSE 3))

(* f"history/{timestamp}-{summary}.txt" *)
FileName(timestamp, summary) ==
    <<"h","i","s","t","o","r","y","/">>
    \o timestamp \o <<"-">> \o summary \o <<".","t","x","t">>

(* ContentLine without the newline that ends the line. *)
ContentLineBare(msg) ==
    (IF msg.role = "user" THEN <<"Y","o","u">> ELSE <<"C","l","a","u","d","e">>)
    \o <<":", " ">> \o msg.content

(* role = "You" if msg["role"] == "user" else "Claude"                     *)
(* content.append(f"{role}: {msg['content']}\n")                           *)
ContentLine(msg) ==
    (IF msg.role = "user" THEN <<"Y","o","u">> ELSE <<"C","l","a","u","d","e">>)
    \o <<":", " ">> \o msg.content \o <<"\n">>

(* f.write('\n'.join(content)) *)
FileContent(msgs) == Join(<<"\n">>, [i \in 1..Len(msgs) |-> ContentLine(msgs[i])])

----------------------------------------------------------------------------
(* The bounds of the model and the inputs the environment can give.        *)

(* The number of conversation turns a session is followed for. *)
MaxTurns == 2

(* The largest number of fenced blocks in a text given to the formatter. *)
MaxBlocks == 11

(* The number of start() calls made on one ProgressTracker. *)
MaxStarts == 3

Prompts == {<<"h","i"," ","t","h","e","r","e">>}

UserInputs ==
    {<<"h","i">>, <<"e","x","i","t">>, <<"Q","u","I","t">>, <<"e","x","i","t"," ">>}

SaveAnswers == {<<"y">>, <<"Y">>, <<"n">>, << >>}

ContinueAnswers == {<<"Y">>, <<"n">>}

Responses ==
    {<<"a","\n","\n","b">>,
     <<"BQ","BQ","BQ","\n","*","*","b","*","*","\n","BQ","BQ","BQ">>}

SummaryTexts ==
    {<<"U","s","e","f","u","l","-","C","h","a","t">>,
     <<" ","a","-","-","b","-","c","-","d","\n">>, << >>}

Timestamps == {<<"2","0","2","4","-","0","1","-","0","1","-","0","0",":","0","0",":","0","0">>}

----------------------------------------------------------------------------
(* The state of a session.                                                 *)

VARIABLES
    variant,        \* "main": call_anthropic_api and handle_conversation of main.py;
                    \* "manager": ConversationManager.handle_conversation
    concise, short, no_animation,   \* the flags of the session
    pc,             \* the position of the session's flow of control
    mode,           \* "oneshot": the first request of main.py; "conv": the loop
    messages,       \* the transcript
    user_input,     \* the line last read by the loop
    save_prompt,    \* the answer to "Do you want to save this conversation?"
    response_text,  \* the text of the response of the turn
    formatted_text, \* the text the turn renders
    tracker,        \* the turn's ProgressTracker: whether the name is bound, and its done flag
    call_status,    \* the turn's completion call: "none", "ok" or "failed"
    passes,         \* the formatting passes applied to the response, in order
    displayed,      \* the messages shown on the terminal, in order
    output,         \* the status lines printed, in order
    turn_base,      \* the transcript when the loop last read a line
    turns,          \* the conversation turns completed
    summary_request,\* the messages of the summary call
    summary_status, \* the summary call: "none", "ok" or "failed"
    summary,        \* the slug of the file name
    save_status,    \* save_conversation: "none", "saved" or "failed"
    history,        \* the files under history/
    n_create,       \* completion calls issued
    n_input,        \* lines read by the loop
    n_summary,      \* summary calls issued
    f_in, f_out, f_pc,  \* the formatter applied to a text of its own
    trackers,       \* the ProgressTracker objects constructed: the done flag of each
    threads,        \* the threads running _animate: the tracker of each, its position,
                    \* and whether stop() was called on the tracker since its launch
    terminal        \* the last write to the terminal among the spinner frames
                    \* ("frame"), the clearing of the line by stop() ("clear") and
                    \* the response ("response"); "none" before any

flags == <<variant, concise, short, no_animation>>

turn_vars == <<response_text, formatted_text, tracker, call_status, passes>>

save_vars == <<save_prompt, summary_request, summary_status, summary, save_status, history, n_summary>>

fmt_vars == <<f_in, f_out, f_pc>>

tick_vars == <<trackers, threads, terminal>>

vars ==
    <<variant, concise, short, no_animation, pc, mode, messages, user_input, save_prompt,
      response_text, formatted_text, tracker, call_status, passes, displayed, output,
      turn_base, turns, summary_request, summary_status, summary, save_status, history,
      n_create, n_input, n_summary, f_in, f_out, f_pc, trackers, threads, terminal>>

Unbound == [bound |-> FALSE, done |-> FALSE]

(* ProgressTracker.__init__: self.done = False *)
NewTracker == [done |-> FALSE]

(* ProgressTracker.start on tracker o: self.done = False, and a thread is  *)
(* launched on self._animate.                                              *)
start(trk, thr, o) ==
    [trackers |-> [trk EXCEPT ![o].done = FALSE],
     threads  |-> Append(thr, [self |-> o, pc |-> "check", stopped |-> FALSE])]

(* ProgressTracker.stop on tracker o: self.done = True (the line is        *)
(* cleared by the action that calls it).  The threads of the tracker that  *)
(* are still in their loop are marked as told to stop.                     *)
stop(trk, thr, o) ==
    [trackers |-> [trk EXCEPT ![o].done = TRUE],
     threads  |-> [i \in 1..Len(thr) |->
                      IF thr[i].self = o /\ thr[i].pc # "exited"
                      THEN [thr[i] EXCEPT !.stopped = TRUE]
                      ELSE thr[i]]]

SessionInit ==
    /\ variant \in {"main", "manager"}
    /\ concise \in BOOLEAN
    /\ short \in BOOLEAN
    /\ no_animation \in (IF variant = "manager" THEN BOOLEAN ELSE {TRUE})
    /\ pc = (IF variant = "main" THEN "oneshot" ELSE "idle")
    /\ mode = (IF variant = "main" THEN "oneshot" ELSE "conv")
    /\ messages = << >>
    /\ user_input = << >>
    /\ save_prompt = << >>
    /\ response_text = << >>
    /\ formatted_text = << >>
    /\ tracker = Unbound
    /\ call_status = "none"
    /\ passes = << >>
    /\ displayed = << >>
    /\ output = << >>
    /\ turn_base = << >>
    /\ turns = 0
    /\ summary_request = << >>
    /\ summary_status = "none"
    /\ summary = << >>
    /\ save_status = "none"
    /\ history = {}
    /\ n_create = 0
    /\ n_input = 0
    /\ n_summary = 0

(* No tracker is constructed and no thread is launched before the first    *)
(* call.                                                                   *)
TickInit ==
    /\ trackers = << >>
    /\ threads = << >>
    /\ terminal = "none"

Init ==
    /\ SessionInit
    /\ TickInit
    /\ f_in = << >>
    /\ f_out = << >>
    /\ f_pc = "off"

----------------------------------------------------------------------------
(* The session: call_anthropic_api and handle_conversation of main.py, and *)
(* handle_conversation and process_message of ConversationManager.         *)

(* user_input.lower() in ['exit', 'quit'] *)
IsExit(u) == Lower(u) \in {<<"e","x","i","t">>, <<"q","u","i","t">>}

(* IsYes taking every answer but n for a yes. *)
IsNotNo(a) == Lower(a) # <<"n">>

(* answer.lower() == 'y' *)
IsYes(a) == Lower(a) = <<"y">>

(* call_anthropic_api up to the completion call: the transcript starts     *)
(* with the modified prompt, which is printed.                             *)
StartOneShot(prompt) ==
    /\ pc = "oneshot"
    /\ messages' = <<Message("user", modify_prompt(prompt, concise, short))>>
    /\ displayed' = <<Message("user", modify_prompt(prompt, concise, short))>>
    /\ pc' = "start"
    /\ UNCHANGED <<flags, mode, user_input, turn_vars, output, turn_base, turns,
                   save_vars, n_create, n_input, fmt_vars, tick_vars>>

(* The loop reads a line.  An exit keyword leaves the loop for the save    *)
(* prompt; any other line is appended to the transcript as typed and       *)
(* starts a turn.                                                          *)
ReadInput(u) ==
    /\ pc = "idle"
    /\ user_input' = u
    /\ n_input' = n_input + 1
    /\ turn_base' = messages
    /\ call_status' = "none"
    /\ passes' = << >>
    /\ IF IsExit(u)
       THEN /\ output' = Append(output, "Ending conversation.")
            /\ pc' = "save_prompt"
            /\ UNCHANGED <<messages, displayed, tracker>>
       ELSE /\ turns < MaxTurns
            /\ messages' = Append(messages, Message("user", u))
            /\ displayed' = Append(displayed, Message("user", u))
            /\ tracker' = Unbound
            /\ pc' = "start"
            /\ UNCHANGED output
    /\ UNCHANGED <<flags, mode, response_text, formatted_text, turns, save_vars,
                   n_create, fmt_vars, tick_vars>>

(* tracker = ProgressTracker(); tracker.start() -- in process_message only *)
(* under "if no_animation".                                                *)
StartTracker ==
    /\ pc = "start"
    /\ IF variant = "main" \/ no_animation
       THEN LET s == start(Append(trackers, NewTracker), threads, Len(trackers) + 1)
            IN  /\ tracker' = [bound |-> TRUE, done |-> FALSE]
                /\ trackers' = s.trackers
                /\ threads' = s.threads
       ELSE UNCHANGED <<tracker, trackers, threads>>
    /\ pc' = "call"
    /\ UNCHANGED <<flags, mode, messages, user_input, response_text, formatted_text,
                   call_status, passes, displayed, output, turn_base, turns, save_vars,
                   n_create, n_input, fmt_vars, terminal>>

(* client.messages.create(messages=messages) returns a response. *)
CreateReturns(r) ==
    /\ pc = "call"
    /\ n_create' = n_create + 1
    /\ response_text' = r
    /\ call_status' = "ok"
    /\ pc' = "stop"
    /\ UNCHANGED <<flags, mode, messages, user_input, formatted_text, tracker, passes,
                   displayed, output, turn_base, turns, save_vars, n_input, fmt_vars, tick_vars>>

(* client.messages.create raises: control goes to the except clause. *)
CreateRaises ==
    /\ pc = "call"
    /\ n_create' = n_create + 1
    /\ call_status' = "failed"
    /\ pc' = "except"
    /\ UNCHANGED <<flags, mode, messages, user_input, response_text, formatted_text,
                   tracker, passes, displayed, output, turn_base, turns, save_vars,
                   n_input, fmt_vars, tick_vars>>

(* tracker.stop(); with the name unbound the statement raises              *)
(* UnboundLocalError.                                                      *)
StopTracker ==
    /\ pc = "stop"
    /\ IF tracker.bound
       THEN LET s == stop(trackers, threads, Len(trackers))
            IN  /\ tracker' = [bound |-> TRUE, done |-> TRUE]
                /\ trackers' = s.trackers
                /\ threads' = s.threads
                /\ terminal' = "clear"
                /\ pc' = "format"
       ELSE /\ pc' = "except"
            /\ UNCHANGED <<tracker, tick_vars>>
    /\ UNCHANGED <<flags, mode, messages, user_input, response_text, formatted_text,
                   call_status, passes, displayed, output, turn_base, turns, save_vars,
                   n_create, n_input, fmt_vars>>

(* FormatResponse with the two passes in the other order. *)
FormatResponseHighlightFirst(lexer) ==
    /\ pc = "format"
    /\ formatted_text' = enhance_text_formatting(highlight_code_blocks(response_text, lexer))
    /\ passes' = <<"highlight_code_blocks", "enhance_text_formatting">>
    /\ pc' = "render"
    /\ UNCHANGED <<flags, mode, messages, user_input, response_text, tracker, call_status,
                   displayed, output, turn_base, turns, save_vars, n_create, n_input,
                   fmt_vars, tick_vars>>

(* formatted_text = enhance_text_formatting(response_text)                 *)
(* formatted_text = highlight_code_blocks(formatted_text)                  *)
FormatResponse(lexer) ==
    /\ pc = "format"
    /\ formatted_text' = highlight_code_blocks(enhance_text_formatting(response_text), lexer)
    /\ passes' = <<"enhance_text_formatting", "highlight_code_blocks">>
    /\ pc' = "render"
    /\ UNCHANGED <<flags, mode, messages, user_input, response_text, tracker, call_status,
                   displayed, output, turn_base, turns, save_vars, n_create, n_input,
                   fmt_vars, tick_vars>>

(* print(formatted_text) or render_text_smoothly(formatted_text) *)
Render ==
    /\ pc = "render"
    /\ displayed' = Append(displayed, Message("assistant", response_text))
    /\ terminal' = "response"
    /\ pc' = "append"
    /\ UNCHANGED <<flags, mode, messages, user_input, turn_vars, output, turn_base, turns,
                   save_vars, n_create, n_input, fmt_vars, trackers, threads>>

(* messages.append({"role": "assistant", "content": response_text}); the   *)
(* loop reads the next line, the first request asks whether to continue.   *)
AppendAssistant ==
    /\ pc = "append"
    /\ messages' = Append(messages, Message("assistant", response_text))
    /\ turns' = (IF mode = "conv" THEN turns + 1 ELSE turns)
    /\ pc' = (IF mode = "oneshot" THEN "continue_prompt" ELSE "idle")
    /\ UNCHANGED <<flags, mode, user_input, turn_vars, displayed, output, turn_base,
                   save_vars, n_create, n_input, fmt_vars, tick_vars>>

(* Except with the error swallowed and the loop resumed. *)
ExceptResumes ==
    /\ pc = "except"
    /\ output' = Append(output, IF mode = "oneshot" THEN "Unexpected error" ELSE "Error")
    /\ pc' = (IF mode = "oneshot" THEN "done" ELSE "idle")
    /\ UNCHANGED <<flags, mode, messages, user_input, turn_vars, displayed, turn_base,
                   turns, save_vars, n_create, n_input, fmt_vars, tick_vars>>

(* The except clauses: call_anthropic_api prints and returns,              *)
(* handle_conversation of main.py prints and breaks, process_message       *)
(* prints and raises again, and nothing catches it.                        *)
Except ==
    /\ pc = "except"
    /\ output' = Append(output, IF mode = "oneshot" THEN "Unexpected error" ELSE "Error")
    /\ pc' = (IF variant = "manager" THEN "raised" ELSE "done")
    /\ UNCHANGED <<flags, mode, messages, user_input, turn_vars, displayed, turn_base,
                   turns, save_vars, n_create, n_input, fmt_vars, tick_vars>>

(* "Would you like to continue the conversation? (y/n): " *)
ContinuePrompt(a) ==
    /\ pc = "continue_prompt"
    /\ IF IsYes(a) THEN mode' = "conv" /\ pc' = "idle"
                   ELSE mode' = mode /\ pc' = "done"
    /\ UNCHANGED <<flags, messages, user_input, turn_vars, displayed, output, turn_base,
                   turns, save_vars, n_create, n_input, fmt_vars, tick_vars>>

(* "Do you want to save this conversation? (y/n): " *)
ReadSavePrompt(a) ==
    /\ pc = "save_prompt"
    /\ save_prompt' = a
    /\ pc' = (IF IsYes(a) THEN "makedirs" ELSE "goodbye")
    /\ UNCHANGED <<flags, mode, messages, user_input, turn_vars, displayed, output,
                   turn_base, turns, summary_request, summary_status, summary, save_status,
                   history, n_summary, n_create, n_input, fmt_vars, tick_vars>>

(* os.makedirs('history', exist_ok=True) *)
MakeDirs(ok) ==
    /\ pc = "makedirs"
    /\ IF ok THEN pc' = "summary" /\ UNCHANGED save_status
             ELSE pc' = "save_except" /\ save_status' = "failed"
    /\ UNCHANGED <<flags, mode, messages, user_input, turn_vars, displayed, output,
                   turn_base, turns, save_prompt, summary_request, summary_status, summary,
                   history, n_summary, n_create, n_input, fmt_vars, tick_vars>>

(* get_conversation_summary, the call returning text. *)
SummaryReturns(text) ==
    /\ pc = "summary"
    /\ summary_request' = SummaryRequest(messages)
    /\ n_summary' = n_summary + 1
    /\ summary' = SummarySlug(text)
    /\ summary_status' = "ok"
    /\ pc' = "write"
    /\ UNCHANGED <<flags, mode, messages, user_input, turn_vars, displayed, output,
                   turn_base, turns, save_prompt, save_status, history, n_create, n_input,
                   fmt_vars, tick_vars>>

(* SummaryRaises without the except clause: the error reaches             *)
(* save_conversation.                                                      *)
SummaryRaisesUncaught ==
    /\ pc = "summary"
    /\ summary_request' = SummaryRequest(messages)
    /\ n_summary' = n_summary + 1
    /\ summary_status' = "failed"
    /\ save_status' = "failed"
    /\ pc' = "save_except"
    /\ UNCHANGED <<flags, mode, messages, user_input, turn_vars, displayed, output,
                   turn_base, turns, save_prompt, summary, history, n_create, n_input,
                   fmt_vars, tick_vars>>

(* get_conversation_summary, the call raising: the except clause prints    *)
(* and returns the fixed slug.                                             *)
SummaryRaises ==
    /\ pc = "summary"
    /\ summary_request' = SummaryRequest(messages)
    /\ n_summary' = n_summary + 1
    /\ output' = Append(output, "Error getting summary")
    /\ summary' = general_chat_log
    /\ summary_status' = "failed"
    /\ pc' = "write"
    /\ UNCHANGED <<flags, mode, messages, user_input, turn_vars, displayed, turn_base,
                   turns, save_prompt, save_status, history, n_create, n_input, fmt_vars, tick_vars>>

(* The rest of save_conversation: the file name, the content and the       *)
(* write.  open() can fail, leaving no file, and write() can fail after    *)
(* open() has truncated the file.                                          *)
WriteFile(timestamp, outcome) ==
    /\ pc = "write"
    /\ LET filename == FileName(timestamp, summary)
           others   == {f \in history : f.name # filename}
       IN  CASE outcome = "ok" ->
                   /\ history' = others \cup {[name |-> filename, content |-> FileContent(messages)]}
                   /\ output' = Append(output, "Conversation saved")
                   /\ save_status' = "saved"
                   /\ pc' = "goodbye"
             [] outcome = "open_fails" ->
                   /\ save_status' = "failed"
                   /\ pc' = "save_except"
                   /\ UNCHANGED <<history, output>>
             [] outcome = "write_fails" ->
                   /\ history' = others \cup {[name |-> filename, content |-> << >>]}
                   /\ save_status' = "failed"
                   /\ pc' = "save_except"
                   /\ UNCHANGED output
    /\ UNCHANGED <<flags, mode, messages, user_input, turn_vars, displayed, turn_base,
                   turns, save_prompt, summary_request, summary_status, summary, n_summary,
                   n_create, n_input, fmt_vars, tick_vars>>

(* SaveExcept raising the error again. *)
SaveExceptRaises ==
    /\ pc = "save_except"
    /\ output' = Append(output, "Error saving conversation")
    /\ pc' = "raised"
    /\ UNCHANGED <<flags, mode, messages, user_input, turn_vars, displayed, turn_base,
                   turns, save_vars, n_create, n_input, fmt_vars, tick_vars>>

(* except Exception as e: print("Error saving conversation: ...") *)
SaveExcept ==
    /\ pc = "save_except"
    /\ output' = Append(output, "Error saving conversation")
    /\ pc' = "goodbye"
    /\ UNCHANGED <<flags, mode, messages, user_input, turn_vars, displayed, turn_base,
                   turns, save_vars, n_create, n_input, fmt_vars, tick_vars>>

(* print("Goodbye!"); break *)
Goodbye ==
    /\ pc = "goodbye"
    /\ output' = Append(output, "Goodbye!")
    /\ pc' = "done"
    /\ UNCHANGED <<flags, mode, messages, user_input, turn_vars, displayed, turn_base,
                   turns, save_vars, n_create, n_input, fmt_vars, tick_vars>>

Next ==
    \/ \E prompt \in Prompts : StartOneShot(prompt)
    \/ \E u \in UserInputs : ReadInput(u)
    \/ StartTracker
    \/ \E r \in Responses : CreateReturns(r)
    \/ CreateRaises
    \/ StopTracker
    \/ \E lexer \in {"found", "none"} : FormatResponse(lexer)
    \/ Render
    \/ AppendAssistant
    \/ Except
    \/ \E a \in ContinueAnswers : ContinuePrompt(a)
    \/ \E a \in SaveAnswers : ReadSavePrompt(a)
    \/ \E ok \in BOOLEAN : MakeDirs(ok)
    \/ \E text \in SummaryTexts : SummaryReturns(text)
    \/ SummaryRaises
    \/ \E timestamp \in Timestamps, outcome \in {"ok", "open_fails", "write_fails"} :
          WriteFile(timestamp, outcome)
    \/ SaveExcept
    \/ Goodbye

Spec == Init /\ [][Next]_vars

----------------------------------------------------------------------------
(* The ticker threads: the steps of ProgressTracker._animate, interleaved  *)
(* with the session.                                                       *)

(* while not self.done: the thread reads the flag of its tracker and       *)
(* leaves the loop, or goes on to paint a frame.                           *)
AnimateCheck(i) ==
    /\ i \in DOMAIN threads
    /\ threads[i].pc = "check"
    /\ threads' = [threads EXCEPT ![i].pc =
                      IF trackers[threads[i].self].done THEN "exited" ELSE "write"]
    /\ UNCHANGED <<flags, pc, mode, messages, user_input, turn_vars, displayed, output,
                   turn_base, turns, save_vars, n_create, n_input, fmt_vars, trackers,
                   terminal>>

(* sys.stdout.write('\rClaude is thinking ...'); flush; time.sleep(0.1),   *)
(* and back to the test of the loop.                                       *)
AnimateWrite(i) ==
    /\ i \in DOMAIN threads
    /\ threads[i].pc = "write"
    /\ terminal' = "frame"
    /\ threads' = [threads EXCEPT ![i].pc = "check"]
    /\ UNCHANGED <<flags, pc, mode, messages, user_input, turn_vars, displayed, output,
                   turn_base, turns, save_vars, n_create, n_input, fmt_vars, trackers>>

Animate ==
    \E i \in 1..Len(threads) : AnimateCheck(i) \/ AnimateWrite(i)

InitTick ==
    /\ Init
    /\ ~concise /\ ~short

NextTick ==
    \/ Next
    \/ Animate

SpecTick == InitTick /\ [][NextTick]_vars

----------------------------------------------------------------------------
(* One ProgressTracker and a caller that calls start() and stop() on it in *)
(* any order.  The threads are scheduled fairly; the caller may stop       *)
(* calling at any time.                                                    *)

InitTracker ==
    /\ SessionInit
    /\ variant = "main"
    /\ ~concise /\ ~short
    /\ f_in = << >>
    /\ f_out = << >>
    /\ f_pc = "off"
    /\ trackers = <<NewTracker>>
    /\ threads = << >>
    /\ terminal = "none"

(* tracker.start() *)
CallStart ==
    /\ Len(threads) < MaxStarts
    /\ LET s == start(trackers, threads, 1)
       IN  /\ trackers' = s.trackers
           /\ threads' = s.threads
    /\ UNCHANGED <<flags, pc, mode, messages, user_input, turn_vars, displayed, output,
                   turn_base, turns, save_vars, n_create, n_input, fmt_vars, terminal>>

(* tracker.stop() *)
CallStop ==
    /\ LET s == stop(trackers, threads, 1)
       IN  /\ trackers' = s.trackers
           /\ threads' = s.threads
    /\ terminal' = "clear"
    /\ UNCHANGED <<flags, pc, mode, messages, user_input, turn_vars, displayed, output,
                   turn_base, turns, save_vars, n_create, n_input, fmt_vars>>

NextTracker ==
    \/ CallStart
    \/ CallStop
    \/ Animate

SpecTracker ==
    /\ InitTracker
    /\ [][NextTracker]_vars
    /\ \A i \in 1..MaxStarts : WF_vars(AnimateCheck(i) \/ AnimateWrite(i))

----------------------------------------------------------------------------
(* The formatter on texts of its own: prose around n fenced blocks, the    *)
(* code of block i ending in the number i.                                 *)

Fence(code) == <<"BQ","BQ","BQ","\n">> \o code \o <<"\n","BQ","BQ","BQ">>

CodeKinds ==
    {<<"x">>,
     <<"*","*","b","*","*">>,
     <<"BQ","c","BQ">>,
     <<"#"," ","h">>,
     placeholder_pattern}

ProseKinds ==
    {<<"a">>,
     <<"*","*","b","*","*"," ","*","i","*">>,
     <<"1","."," ","x">>,
     <<"#"," ","h">>}

RECURSIVE FencedText(_, _, _)
FencedText(n, code, prose) ==
    IF n = 0 THEN prose
    ELSE FencedText(n - 1, code, prose) \o <<"\n">> \o Fence(code \o Decimal(n))
         \o <<"\n">> \o prose

(* No block, one, two, and more than the ten that have a one-digit number. *)
BlockCounts == {0, 1, 2, MaxBlocks}

FmtInputs ==
    {FencedText(n, code, prose) : n \in BlockCounts, code \in CodeKinds, prose \in ProseKinds}

InitFmt ==
    /\ SessionInit
    /\ TickInit
    /\ variant = "main"
    /\ ~concise /\ ~short
    /\ f_in \in FmtInputs
    /\ f_out = f_in
    /\ f_pc = "raw"

(* formatted_text = enhance_text_formatting(response_text) *)
FmtEnhance ==
    /\ f_pc = "raw"
    /\ f_out' = enhance_text_formatting(f_in)
    /\ f_pc' = "enhanced"
    /\ UNCHANGED <<flags, pc, mode, messages, user_input, turn_vars, displayed, output,
                   turn_base, turns, save_vars, n_create, n_input, f_in,
                   tick_vars>>

(* formatted_text = highlight_code_blocks(formatted_text) *)
FmtHighlight(lexer) ==
    /\ f_pc = "enhanced"
    /\ f_out' = highlight_code_blocks(f_out, lexer)
    /\ f_pc' = "highlighted"
    /\ UNCHANGED <<flags, pc, mode, messages, user_input, turn_vars, displayed, output,
                   turn_base, turns, save_vars, n_create, n_input, f_in,
                   tick_vars>>

NextFmt ==
    \/ FmtEnhance
    \/ \E lexer \in {"found", "none"} : FmtHighlight(lexer)

SpecFmt == InitFmt /\ [][NextFmt]_vars

----------------------------------------------------------------------------
(* The claims.                                                             *)

Printed(line) == \E i \in 1..Len(output) : output[i] = line

LastPrinted == IF Len(output) = 0 THEN "" ELSE output[Len(output)]

(* C1: in a conversation session, a turn whose input is no exit keyword    *)
(* and whose completion call succeeds completes: the session does not go   *)
(* to an except clause, and is back at the prompt with the transcript      *)
(* grown by exactly the user message (the raw input) and the assistant     *)
(* message (the raw response), whatever the flags.                         *)
C1_TurnCompletes ==
    (mode = "conv" /\ call_status = "ok") =>
        /\ pc \in {"stop", "format", "render", "append", "idle"}
        /\ pc = "idle" =>
              messages = turn_base \o <<[role |-> "user", content |-> user_input],
                                        [role |-> "assistant", content |-> response_text]>>

(* C2: a tracker started before a completion call is stopped when the call *)
(* returns or fails: the session is never back at a prompt or terminated   *)
(* with the call finished and the tracker's done flag still false.         *)
C2_TrackerStopped ==
    (call_status \in {"ok", "failed"} /\ tracker.bound
        /\ pc \in {"idle", "continue_prompt", "done", "raised"}) => tracker.done

(* C3: once a completion call has failed, the only step left prints the    *)
(* error and ends the session: no completion call is issued, no line is    *)
(* read, and the transcript gets no further message.                       *)
C3_FailureEndsSession ==
    [][call_status = "failed" =>
          /\ n_create' = n_create
          /\ n_input' = n_input
          /\ messages' = messages
          /\ pc' \in {"done", "raised"}
          /\ Len(output') = Len(output) + 1
          /\ output'[Len(output')] \in {"Error", "Unexpected error"}]_vars

C3_Witness ==
    /\ call_status = "failed"
    /\ mode = "conv"
    /\ turns = 1
    /\ pc \in {"done", "raised"}
    /\ LastPrinted = "Error"

(* C4: when the session is persisted, the summary call gets the transcript *)
(* followed by the summary prompt, the file holds the lines of the         *)
(* transcript, and the transcript is what was shown, entry by entry and in *)
(* order; the summary prompt is never a message of the transcript.         *)
C4_TranscriptPersisted ==
    /\ (n_summary > 0 \/ save_status # "none") => messages = displayed
    /\ n_summary > 0 => summary_request = displayed \o <<summary_prompt>>
    /\ save_status = "saved" =>
          /\ history # {}
          /\ \A f \in history : f.content = FileContent(displayed)
    /\ \A i \in 1..Len(messages) : messages[i] # summary_prompt

C4_Witness ==
    /\ save_status = "saved"
    /\ n_summary = 1
    /\ Len(messages) = 4
    /\ Len(summary_request) = 5

(* C5: after an exit keyword, in any letter case, the session asks whether *)
(* to save, saves only on the answer y, prints the farewell and ends; a    *)
(* declined save writes no file and issues no summary call, and after the  *)
(* exit keyword no completion call is issued and no line is read by the    *)
(* loop.                                                                   *)
C5_ExitKeywords == {<<"e","x","i","t">>, <<"Q","u","I","t">>}

C5_AfterExit == n_input > 0 /\ user_input \in C5_ExitKeywords

C5_Accepted == save_prompt \in {<<"y">>, <<"Y">>}

C5_ExitState ==
    /\ C5_AfterExit =>
          pc \in {"save_prompt", "makedirs", "summary", "write", "save_except", "goodbye", "done"}
    /\ (pc \in {"makedirs", "summary", "write", "save_except"}
            \/ n_summary > 0 \/ history # {} \/ save_status # "none")
          => (C5_AfterExit /\ C5_Accepted)
    /\ (C5_AfterExit /\ pc = "done") =>
          /\ LastPrinted = "Goodbye!"
          /\ C5_Accepted => (save_status # "none")

C5_ExitEndsSession ==
    [][/\ C5_AfterExit => (n_create' = n_create /\ n_input' = n_input)
       /\ C5_ExitState']_vars

C5_Witness ==
    /\ pc = "done"
    /\ user_input = <<"Q","u","I","t">>
    /\ save_prompt = <<"n">>
    /\ n_create = 2
    /\ history = {}
    /\ n_summary = 0

(* C6: when the summary call fails, the slug is general-chat-log, the      *)
(* transcript is as it was, nothing is raised, and the save goes on to     *)
(* write the file under that slug.                                         *)
C6_SummaryFallback ==
    summary_status = "failed" =>
        /\ summary = <<"g","e","n","e","r","a","l","-","c","h","a","t","-","l","o","g">>
        /\ messages = turn_base
        /\ Printed("Error getting summary")
        /\ pc \in {"write", "save_except", "goodbye", "done"}
        /\ pc # "write" => save_status # "none"
        /\ save_status = "saved" =>
              \E f \in history, ts \in Timestamps :
                  /\ f.name = <<"h","i","s","t","o","r","y","/">> \o ts
                              \o <<"-","g","e","n","e","r","a","l","-","c","h","a","t","-","l","o","g",".","t","x","t">>
                  /\ f.content = FileContent(messages)

C6_Witness ==
    /\ summary_status = "failed"
    /\ save_status = "saved"
    /\ Len(messages) >= 2
    /\ pc = "done"

(* C7: a failure of the save (making the directory, opening or writing the *)
(* file) is printed and nothing is raised: the transcript is as it was,    *)
(* and the session prints the farewell and ends.                           *)
C7_SaveFailureReported ==
    save_status = "failed" =>
        /\ pc \in {"save_except", "goodbye", "done"}
        /\ messages = turn_base
        /\ pc # "save_except" => Printed("Error saving conversation")
        /\ pc = "done" => LastPrinted = "Goodbye!"

C7_Witness ==
    /\ save_status = "failed"
    /\ pc = "done"
    /\ n_summary = 1

(* C8 as stated: the content of the saved file, split on the blank-line    *)
(* separator, is the list of the blocks "<You|Claude>: <content>" of the   *)
(* transcript, in order.                                                   *)
C8_Blocks(msgs) ==
    [i \in 1..Len(msgs) |->
        (IF msgs[i].role = "user" THEN <<"Y","o","u">> ELSE <<"C","l","a","u","d","e">>)
        \o <<":", " ">> \o msgs[i].content]

C8_RoundTripExact ==
    save_status = "saved" =>
        \A f \in history : Split(f.content, <<"\n", "\n">>) = C8_Blocks(messages)

(* C8, amended: for a transcript that is not empty and whose contents hold *)
(* no blank line and end in no newline, the content of the saved file ends *)
(* in a newline and, without it, splits on the blank-line separator into   *)
(* the blocks "<You|Claude>: <content>" of the transcript, in order.       *)
C8_Plain(msgs) ==
    \A i \in 1..Len(msgs) :
        LET c == msgs[i].content
        IN  /\ \A k \in 1..(Len(c) - 1) : ~(c[k] = "\n" /\ c[k + 1] = "\n")
            /\ (Len(c) > 0 => c[Len(c)] # "\n")

C8_RoundTripAmended ==
    (save_status = "saved" /\ Len(messages) > 0 /\ C8_Plain(messages)) =>
        \A f \in history :
            /\ Len(f.content) > 0
            /\ f.content[Len(f.content)] = "\n"
            /\ Split(SubSeq(f.content, 1, Len(f.content) - 1), <<"\n", "\n">>)
                  = C8_Blocks(messages)

C8_Witness ==
    /\ save_status = "saved"
    /\ Len(messages) = 2
    /\ C8_Plain(messages)
    /\ messages[1].role = "user"
    /\ messages[2].role = "assistant"

(* C9: enhance_text_formatting leaves the fenced blocks as they are: the   *)
(* fenced blocks of its result are the fenced blocks of its input, the     *)
(* same texts in the same order.                                           *)
C9_FencesVerbatim ==
    f_pc = "enhanced" => StoredBlocks(f_out) = StoredBlocks(f_in)

(* C10 as stated: the inline-enhancement pass is never applied to a        *)
(* response before the code-block pass has run on it.                      *)
C10_HighlightFirst ==
    \A i \in 1..Len(passes) :
        passes[i] = "enhance_text_formatting" =>
            \E j \in 1..(i - 1) : passes[j] = "highlight_code_blocks"

(* C10, amended: in every turn, the first request and the turns of the     *)
(* loop alike, the response is formatted by the inline-enhancement pass    *)
(* first and the code-block pass second: the code-block pass is never      *)
(* applied before the inline-enhancement pass has run, and the text        *)
(* rendered is the code-block pass of the inline-enhancement pass of the   *)
(* response.                                                               *)
C10_EnhanceFirst ==
    /\ \A i \in 1..Len(passes) :
          passes[i] = "highlight_code_blocks" =>
              \E j \in 1..(i - 1) : passes[j] = "enhance_text_formatting"
    /\ pc \in {"render", "append"} =>
          /\ passes = <<"enhance_text_formatting", "highlight_code_blocks">>
          /\ \E lexer \in {"found", "none"} :
                formatted_text
                    = highlight_code_blocks(enhance_text_formatting(response_text), lexer)

C10_Witness ==
    /\ pc = "render"
    /\ mode = "conv"
    /\ passes = <<"enhance_text_formatting", "highlight_code_blocks">>
    /\ formatted_text # enhance_text_formatting(highlight_code_blocks(response_text, "none"))
    /\ formatted_text = highlight_code_blocks(enhance_text_formatting(response_text), "none")

(* C11: whatever the sequence of start() and stop() calls on a             *)
(* ProgressTracker, a ticker thread launched before a stop() call          *)
(* eventually sees the done flag and leaves its loop, the threads being    *)
(* scheduled fairly.                                                       *)
C11_StoppedTickerExits ==
    \A i \in 1..MaxStarts :
        (i \in DOMAIN threads /\ threads[i].stopped)
            ~> (i \in DOMAIN threads /\ threads[i].pc = "exited")

(* C12: a ticker runs only while a completion call is outstanding: never   *)
(* more than one ticker can still paint a frame, and none can while the    *)
(* session waits for a line of input, renders the response or has ended.   *)
(* A ticker can still paint a frame when it is about to write one, or is   *)
(* at the test of its loop with the done flag of its tracker false.        *)
C12_Painting ==
    {i \in DOMAIN threads :
        \/ threads[i].pc = "write"
        \/ threads[i].pc = "check" /\ ~trackers[threads[i].self].done}

C12_TickerOnlyDuringCall ==
    /\ Cardinality(C12_Painting) <= 1
    /\ pc \in {"idle", "continue_prompt", "save_prompt", "render", "done", "raised"}
          => C12_Painting = {}

(* C13: once stop() has returned no spinner frame is written: the line     *)
(* stop() cleared is clear when the response is written, and no frame      *)
(* follows the response.                                                   *)
C13_NoFrameAfterStop ==
    (tracker.bound /\ tracker.done) => terminal # "frame"

====
